---- MODULE Spec2Model ----
(***************************************************************************)
(* Model of flowgrind's source.c: name2socket() and add_flow_source().      *)
(*                                                                         *)
(* The flow table flows[] and its count num_flows are the daemon's global  *)
(* state.  A caller thread p runs add_flow_source() step by step; every    *)
(* system call (getaddrinfo, socket, connect, calloc, malloc, getsockopt)  *)
(* succeeds or fails nondeterministically.  Open descriptors and heap      *)
(* blocks are tracked next to the flow table so that a leak is a state of  *)
(* the model.                                                              *)
(***************************************************************************)
EXTENDS Integers, Sequences, FiniteSets, TLC

(* ----------------------------- bounds ---------------------------------- *)
\* Size of the flow table (daemon.h sets the real value; the table is an
\* array of MAX_FLOWS flows).
MAX_FLOWS == 2
\* Calls of add_flow_source / name2socket made in one behaviour.
MaxCalls == 3
\* Caller threads of the concurrent specification.
NumProcs == 2
\* Candidate addresses getaddrinfo returns at most.
MaxCand == 2
\* The block size a request asks for; more than 256, so that the byte
\* pattern wraps.
MaxBlock == 258

Procs == 1..NumProcs
\* Slot indices the model can hold.  Indices >= MAX_FLOWS are the memory
\* past the end of flows[], reached only when the count overruns the table.
TableSlots == 0..(MAX_FLOWS + NumProcs - 1)
\* A flow that is not in the table: the one a direct caller of name2socket
\* passes.
ScratchSlot == MAX_FLOWS + NumProcs
Slots == TableSlots \cup {ScratchSlot}

(* ------------------------- values of the code -------------------------- *)
NULL == 0
\* A response field of the request the call has not written.
Unset == -1
NoError == ""
PF_INET == "PF_INET"
PF_INET6 == "PF_INET6"
GRIND_WAIT_CONNECT == "GRIND_WAIT_CONNECT"
CapacityMsg == "Can not accept another flow, already handling MAX_FLOW flows."
AllocMsg == "could not allocate memory for read/write blocks"
GaiMsg == "getaddrinfo() failed: gai_strerror"
ConnMsg == "Could not establish connection to host:port: strerror"
SockMsgPrefix == "Could not create data socket: "
CcMsg == "failed to determine actual congestion control algorithm: strerror"
OptMsg == "Unable to set socket option: strerror"

VARIABLES
    num_flows,      \* int num_flows
    flows,          \* struct _flow flows[]
    next_flow_id,   \* id handed out by init_flow
    openFds,        \* descriptors open in the process
    heap,           \* live heap blocks: pointer -> contents
    calls,          \* calls made so far
    pc,             \* pc[p]: where thread p stands
    request,        \* request[p]: the caller's struct _request_add_flow_source
    flow,           \* flow[p]: index of the slot `flow` points to
    rv,             \* rv[p]: value returned by the last call
    n2s,            \* n2s[p]: arguments and locals of name2socket
    hist            \* hist[p]: history of the call in progress

vars == <<num_flows, flows, next_flow_id, openFds, heap, calls, pc, request,
          flow, rv, n2s, hist>>

(* --------------------------- heap and fds ------------------------------ *)
RECURSIVE Least(_, _)
Least(S, n) == IF n \in S THEN Least(S, n + 1) ELSE n

\* socket() returns the lowest descriptor not in use (0..2 are stdio).
NewFd == Least(openFds, 3)
\* malloc/calloc return a block distinct from every live one.
NewPtr(h) == Least(DOMAIN h, 1)
Alloc(h, contents) == (NewPtr(h) :> contents) @@ h
\* free(NULL) does nothing.
Free(h, ptr) == [q \in (DOMAIN h) \ {ptr} |-> h[q]]
FreeAll(h, ptrs) == [q \in (DOMAIN h) \ ptrs |-> h[q]]
Zeroes(n) == [i \in 1..n |-> 0]

(* ------------------- collaborators outside source.c -------------------- *)
\* A slot of the zero-initialised global table that no admission has used.
EmptyFlow ==
    [id |-> 0, state |-> "UNINITIALIZED", fd |-> 0,
     write_block |-> NULL, read_block |-> NULL, addr |-> NULL, addr_len |-> 0,
     error |-> NoError, connect_called |-> 0, pmtu |-> 0,
     settings |-> [maximum_block_size |-> 0, byte_counting |-> 0,
                   requested_read_buffer_size |-> 0,
                   requested_send_buffer_size |-> 0],
     source_settings |-> [destination_host |-> "", destination_port |-> 0,
                          late_connect |-> 0]]

\* init_flow(flow, 1): a default flow with a fresh id, no socket, no buffers.
init_flow(id) ==
    [EmptyFlow EXCEPT !.id = id, !.state = GRIND_WAIT_CONNECT, !.fd = -1]

\* uninit_flow(flow): closes the socket if there is one, frees both blocks,
\* the address and the error text; each may be absent.
uninit_fds(fl) == IF fl.fd # -1 THEN {fl.fd} ELSE {}
uninit_ptrs(fl) == {fl.write_block, fl.read_block, fl.addr}
uninit_flow(fl) ==
    [fl EXCEPT !.fd = -1, !.write_block = NULL, !.read_block = NULL,
               !.addr = NULL, !.addr_len = 0, !.error = NoError]

\* set_window_size_directed(fd, req, dir): asks for req bytes when req > 0 and
\* returns the size the kernel reports afterwards.
KernelDefault == 87380
set_window_size_directed(req) ==
    IF req <= 0 THEN {KernelDefault} ELSE {req, 2 * req}

\* set_flow_tcp_options(flow): applies the options and returns 0, or leaves
\* its error text on the flow and returns -1.
set_flow_tcp_options(fl, ok) ==
    IF ok THEN [rc |-> 0, flow |-> fl]
    ELSE [rc |-> -1, flow |-> [fl EXCEPT !.error = OptMsg]]

\* get_pmtu(fd): the path MTU of a connected socket, 0 when there is none.
PathMtu == 1500
get_pmtu(connected) == IF connected THEN PathMtu ELSE 0

(* ----------------------- the resolver's answers ------------------------ *)
\* Candidate k of the list getaddrinfo returns: its family, the bytes of
\* its socket address and the numeric text of that address.
ai_family(k) == IF k % 2 = 1 THEN PF_INET ELSE PF_INET6
ai_addrlen(k) == IF ai_family(k) = PF_INET THEN 16 ELSE 28
\* The address of the head of the list, whatever k is.
ai_addr_head(k) == <<ai_addrlen(1), 1>>
\* res->ai_addr of candidate k.
ai_addr(k) == <<ai_addrlen(k), k>>
NumericHost(k) ==
    IF ai_family(k) = PF_INET THEN "inet_ntoa:" \o ToString(k)
    ELSE "inet_ntop:" \o ToString(k)
\* res->ai_next; NULL after the last candidate.
ai_next(k, n) == IF k < n THEN k + 1 ELSE NULL

(* ------------------------------ requests ------------------------------- *)
\* The requests of the model ask for a receive buffer of ReqSize bytes and
\* state no preference (0) for the send buffer.
ReqSize == 4096
Settings ==
    [maximum_block_size : {MaxBlock}, byte_counting : {0, 1},
     requested_read_buffer_size : {ReqSize},
     requested_send_buffer_size : {0}]
SourceSettings ==
    [destination_host : {"host"}, destination_port : {5999},
     late_connect : {0, 1}]
NewRequest(s, ss) ==
    [settings |-> s, source_settings |-> ss, flow_id |-> Unset,
     real_read_buffer_size |-> Unset, real_send_buffer_size |-> Unset,
     cc_alg |-> "", error |-> NoError]
NoRequest == NewRequest(EmptyFlow.settings, EmptyFlow.source_settings)

NoN2s ==
    [caller |-> "none", do_connect |-> FALSE, ncand |-> 0, res |-> NULL,
     ressave |-> NULL, fd |-> -1, result |-> 0]
\* Nothing recorded: the count, the open sockets and the live blocks before
\* the call, the sockets name2socket made, the candidates it connected to
\* with each connect's result, and the system calls in their order; the
\* candidates socket() was called for with what it returned, and the sizes
\* read back from each socket made.
NoHist ==
    [pre |-> [num_flows |-> 0, openFds |-> {}, heapPtrs |-> {}],
     made |-> {}, connects |-> <<>>, events |-> <<>>, eager |-> "none",
     tried |-> <<>>, granted |-> <<>>]

Init ==
    /\ num_flows = 0
    /\ flows = [i \in Slots |-> EmptyFlow]
    /\ next_flow_id = 0
    /\ openFds = {}
    /\ heap = <<>>
    /\ calls = 0
    /\ pc = [p \in Procs |-> "idle"]
    /\ request = [p \in Procs |-> NoRequest]
    /\ flow = [p \in Procs |-> 0]
    /\ rv = [p \in Procs |-> 0]
    /\ n2s = [p \in Procs |-> NoN2s]
    /\ hist = [p \in Procs |-> NoHist]

(* ------------------------- add_flow_source ----------------------------- *)
\* The caller starts add_flow_source(request) with a fresh request, its
\* settings drawn from S and SS.
Call(p, S, SS) ==
    /\ pc[p] = "idle"
    /\ calls < MaxCalls
    /\ \E s \in S, ss \in SS :
          request' = [request EXCEPT ![p] = NewRequest(s, ss)]
    /\ calls' = calls + 1
    /\ hist' = [hist EXCEPT ![p] =
                  [NoHist EXCEPT !.pre = [num_flows |-> num_flows,
                                          openFds |-> openFds,
                                          heapPtrs |-> DOMAIN heap]]]
    /\ pc' = [pc EXCEPT ![p] = "afs_check"]
    /\ UNCHANGED <<num_flows, flows, next_flow_id, openFds, heap, flow, rv, n2s>>

\* The test written with > in place of >=.
AtCapacityOffByOne(n) == n > MAX_FLOWS

\* if (num_flows >= MAX_FLOWS)
AtCapacity(n) == n >= MAX_FLOWS

\* The capacity test with the rollback's num_flows-- pasted into its
\* failure path.
AFS_CheckReleasing(p) ==
    /\ pc[p] = "afs_check"
    /\ IF num_flows >= MAX_FLOWS
       THEN /\ request' = [request EXCEPT ![p].error = CapacityMsg]
            /\ num_flows' = num_flows - 1
            /\ rv' = [rv EXCEPT ![p] = -1]
            /\ pc' = [pc EXCEPT ![p] = "afs_ret"]
       ELSE /\ pc' = [pc EXCEPT ![p] = "afs_reserve"]
            /\ UNCHANGED <<num_flows, request, rv>>
    /\ UNCHANGED <<flows, next_flow_id, openFds, heap, calls, flow, n2s, hist>>

\* Lines 157-161: the capacity test.
AFS_Check(p) ==
    /\ pc[p] = "afs_check"
    /\ IF AtCapacity(num_flows)
       THEN /\ request' = [request EXCEPT ![p].error = CapacityMsg]
            /\ rv' = [rv EXCEPT ![p] = -1]
            /\ pc' = [pc EXCEPT ![p] = "afs_ret"]
       ELSE /\ pc' = [pc EXCEPT ![p] = "afs_reserve"]
            /\ UNCHANGED <<request, rv>>
    /\ UNCHANGED <<num_flows, flows, next_flow_id, openFds, heap, calls, flow,
                   n2s, hist>>

\* Lines 163-167: flow = &flows[num_flows++]; init_flow; copy the settings.
AFS_Reserve(p) ==
    /\ pc[p] = "afs_reserve"
    /\ flow' = [flow EXCEPT ![p] = num_flows]
    /\ num_flows' = num_flows + 1
    /\ next_flow_id' = next_flow_id + 1
    /\ flows' = [flows EXCEPT ![num_flows] =
                   [init_flow(next_flow_id) EXCEPT
                      !.settings = request[p].settings,
                      !.source_settings = request[p].source_settings]]
    /\ pc' = [pc EXCEPT ![p] = "afs_alloc"]
    /\ UNCHANGED <<openFds, heap, calls, request, rv, n2s, hist>>

\* A failure path that leaves the count as it is.
ReleaseForgotten(n) == n

\* num_flows-- of every failure path.
Release(n) == n - 1

\* The failure path shared by lines 172-178, 191-197, 199-205 and 209-216:
\* the error goes to the request, then uninit_flow(flow); num_flows--;
\* return -1.  fl, fds and hp are the flow, the descriptors and the heap as
\* the step left them.
FailAndRollback(p, err, fl, fds, hp) ==
    /\ request' = [request EXCEPT ![p].error = err]
    /\ flows' = [flows EXCEPT ![flow[p]] = uninit_flow(fl)]
    /\ openFds' = fds \ uninit_fds(fl)
    /\ heap' = FreeAll(hp, uninit_ptrs(fl))
    /\ num_flows' = Release(num_flows)
    /\ rv' = [rv EXCEPT ![p] = -1]
    /\ pc' = [pc EXCEPT ![p] = "afs_ret"]

\* The index stored without the mask.
PatternByteUnmasked(byte_idx) == byte_idx

\* (unsigned char)(byte_idx & 0xff)
PatternByte(byte_idx) == byte_idx % 256

\* The write block after lines 179-183.
FillPattern(block, byte_counting) ==
    IF byte_counting # 0
    THEN [i \in 1..Len(block) |-> PatternByte(i - 1)]
    ELSE block

\* name2socket asked to connect.
AFS_do_connect_set == TRUE

\* The do_connect argument of the call at lines 186-190.
AFS_do_connect == FALSE

\* Lines 169-190: both blocks are calloc'ed; if either is missing the call
\* rolls back; otherwise the pattern is written, the state is set and
\* name2socket is entered with do_connect = 0.
AFS_Alloc(p) ==
    /\ pc[p] = "afs_alloc"
    /\ \E wOk \in BOOLEAN, rOk \in BOOLEAN :
         LET f == flow[p]
             size == flows[f].settings.maximum_block_size
             wp == IF wOk THEN NewPtr(heap) ELSE NULL
             h1 == IF wOk THEN Alloc(heap, Zeroes(size)) ELSE heap
             rp == IF rOk THEN NewPtr(h1) ELSE NULL
             h2 == IF rOk THEN Alloc(h1, Zeroes(size)) ELSE h1
             fl == [flows[f] EXCEPT !.write_block = wp, !.read_block = rp]
         IN IF wp = NULL \/ rp = NULL
            THEN /\ FailAndRollback(p, AllocMsg, fl, openFds, h2)
                 /\ UNCHANGED <<n2s>>
            ELSE /\ heap' = [h2 EXCEPT ![wp] =
                               FillPattern(h2[wp], fl.settings.byte_counting)]
                 /\ flows' = [flows EXCEPT ![f] =
                                [fl EXCEPT !.state = GRIND_WAIT_CONNECT]]
                 /\ n2s' = [n2s EXCEPT ![p] =
                              [NoN2s EXCEPT !.caller = "afs",
                                            !.do_connect = AFS_do_connect]]
                 /\ pc' = [pc EXCEPT ![p] = "n2s_getaddrinfo"]
                 /\ UNCHANGED <<num_flows, openFds, request, rv>>
    /\ UNCHANGED <<next_flow_id, calls, flow, hist>>

(* ----------------------------- name2socket ----------------------------- *)
Log(p, ev) == [hist EXCEPT ![p].events = Append(@, ev)]

\* Where name2socket's return value goes: to line 186 of add_flow_source or
\* to the direct caller.
ReturnTo(caller) == IF caller = "afs" THEN "afs_socket" ELSE "n2s_done"

\* Lines 81-92: getaddrinfo fails, or returns a list of 1..MaxCand
\* candidates and res points to the first.
N2S_Getaddrinfo(p) ==
    /\ pc[p] = "n2s_getaddrinfo"
    /\ \/ /\ flows' = [flows EXCEPT ![flow[p]].error = GaiMsg]
          /\ n2s' = [n2s EXCEPT ![p].result = -1]
          /\ pc' = [pc EXCEPT ![p] = ReturnTo(n2s[p].caller)]
          /\ UNCHANGED heap
       \/ \E n \in 1..MaxCand :
          /\ heap' = Alloc(heap, <<n>>)
          /\ n2s' = [n2s EXCEPT ![p].ncand = n, ![p].res = 1,
                                ![p].ressave = NewPtr(heap)]
          /\ pc' = [pc EXCEPT ![p] = "n2s_socket"]
          /\ UNCHANGED flows
    /\ UNCHANGED <<num_flows, next_flow_id, openFds, calls, request, flow, rv,
                   hist>>

\* A loop left after its first pass.
LoopNextOnce(k, n) == "n2s_finish"

\* while ((res = res->ai_next) != NULL): the loop goes on with the next
\* candidate or is left with res == NULL.
LoopNext(k, n) ==
    IF ai_next(k, n) # NULL THEN "n2s_socket" ELSE "n2s_finish"

\* Only the send buffer negotiated.
NegotiateSendOnly(fd) == <<<<"SO_SNDBUF", fd>>>>

\* Lines 101-104: set_window_size_directed(fd, send_size, SO_SNDBUF), then
\* set_window_size_directed(fd, read_size, SO_RCVBUF), as calls on fd.
NegotiateBoth(fd) == <<<<"SO_SNDBUF", fd>>, <<"SO_RCVBUF", fd>>>>

\* The sizes read back stored over the requested ones.
ReportSizesOverRequested(req, snd, rcv) ==
    [req EXCEPT !.settings.requested_send_buffer_size = snd,
                !.settings.requested_read_buffer_size = rcv]

\* The requested sizes reported as if they had been granted.
ReportSizesAsRequested(req, snd, rcv) ==
    [req EXCEPT
       !.real_send_buffer_size = req.settings.requested_send_buffer_size,
       !.real_read_buffer_size = req.settings.requested_read_buffer_size]

\* *send_buffer_size = ...; *read_buffer_size = ... (lines 102, 104), the
\* pointers being &request->real_send_buffer_size and
\* &request->real_read_buffer_size (lines 188-189).
ReportSizes(req, snd, rcv) ==
    [req EXCEPT !.real_send_buffer_size = snd,
                !.real_read_buffer_size = rcv]

\* Lines 97-107: socket() for the candidate res.  A failure continues with
\* the next candidate; otherwise both buffer sizes are negotiated and,
\* unless a connect is asked for, the loop is left.
N2S_Socket(p) ==
    /\ pc[p] = "n2s_socket"
    /\ LET k == n2s[p].res
           n == n2s[p].ncand
       IN \/ /\ n2s' = [n2s EXCEPT ![p].fd = -1, ![p].res = ai_next(k, n)]
             /\ pc' = [pc EXCEPT ![p] = LoopNext(k, n)]
             /\ hist' = [hist EXCEPT
                           ![p].events = Append(@, <<"socket", -1>>),
                           ![p].tried = Append(@, <<k, -1>>)]
             /\ UNCHANGED <<openFds, request>>
          \/ \E snd \in set_window_size_directed(
                          flows[flow[p]].settings.requested_send_buffer_size),
                rcv \in set_window_size_directed(
                          flows[flow[p]].settings.requested_read_buffer_size) :
             LET fd == NewFd IN
             /\ openFds' = openFds \cup {fd}
             /\ n2s' = [n2s EXCEPT ![p].fd = fd]
             /\ request' = [request EXCEPT
                              ![p] = ReportSizes(request[p], snd, rcv)]
             /\ hist' = [hist EXCEPT
                           ![p].made = @ \cup {fd},
                           ![p].tried = Append(@, <<k, fd>>),
                           ![p].granted = Append(@, <<fd, snd, rcv>>),
                           ![p].events = @ \o <<<<"socket", fd>>>>
                                           \o NegotiateBoth(fd)]
             /\ pc' = [pc EXCEPT ![p] =
                         IF ~n2s[p].do_connect THEN "n2s_finish"
                         ELSE "n2s_connect"]
    /\ UNCHANGED <<num_flows, flows, next_flow_id, heap, calls, flow, rv>>

\* A refused socket left open.
CloseRefusedForgotten(fds, fd) == fds

\* close(fd) after a refused connect (line 125).
CloseRefused(fds, fd) == fds \ {fd}

\* Lines 109-126: connect() to the candidate.  On success the host text is
\* overwritten with the numeric address and the loop is left; on failure
\* the socket is closed and the loop goes on.
N2S_Connect(p) ==
    /\ pc[p] = "n2s_connect"
    /\ LET k == n2s[p].res
           n == n2s[p].ncand
           fd == n2s[p].fd
       IN /\ \/ /\ hist' = [hist EXCEPT
                                ![p].connects = Append(@, <<k, 0>>),
                                ![p].events = Append(@, <<"connect", fd>>)]
                /\ flows' = [flows EXCEPT
                               ![flow[p]].source_settings.destination_host =
                                   NumericHost(k)]
                /\ pc' = [pc EXCEPT ![p] = "n2s_finish"]
                /\ UNCHANGED <<openFds, n2s>>
             \/ /\ hist' = [hist EXCEPT
                                ![p].connects = Append(@, <<k, -1>>),
                                ![p].events = @ \o <<<<"connect", fd>>,
                                                    <<"close", fd>>>>]
                /\ openFds' = CloseRefused(openFds, fd)
                /\ n2s' = [n2s EXCEPT ![p].res = ai_next(k, n)]
                /\ pc' = [pc EXCEPT ![p] = LoopNext(k, n)]
                /\ UNCHANGED flows
    /\ UNCHANGED <<num_flows, next_flow_id, heap, calls, request, flow, rv>>

\* Lines 128-147: with res == NULL the call fails with the connect error.
\* Otherwise the address is copied into a malloc'ed block and fd is
\* returned.  If that malloc fails, error(ERR_FATAL, ...) is called and the
\* NULL block is written next: the process ends, by exit or by the fault.
N2S_Finish(p) ==
    /\ pc[p] = "n2s_finish"
    /\ LET k == n2s[p].res
           h == Free(heap, n2s[p].ressave)
       IN IF k = NULL
          THEN /\ flows' = [flows EXCEPT ![flow[p]].error = ConnMsg]
               /\ heap' = h
               /\ n2s' = [n2s EXCEPT ![p].result = -1]
               /\ pc' = [pc EXCEPT ![p] = ReturnTo(n2s[p].caller)]
          ELSE \/ /\ flows' = [flows EXCEPT
                                 ![flow[p]].addr = NewPtr(heap),
                                 ![flow[p]].addr_len = ai_addrlen(k)]
                  /\ heap' = Free(Alloc(heap, ai_addr(k)), n2s[p].ressave)
                  /\ n2s' = [n2s EXCEPT ![p].result = n2s[p].fd]
                  /\ pc' = [pc EXCEPT ![p] = ReturnTo(n2s[p].caller)]
               \/ /\ pc' = [q \in Procs |-> "exited"]
                  /\ UNCHANGED <<flows, heap, n2s>>
    /\ UNCHANGED <<num_flows, next_flow_id, openFds, calls, request, flow, rv,
                   hist>>

(* ------------------- add_flow_source, after the socket ----------------- *)
\* The result compared with 0, not -1.
SocketFailedZero(fd) == fd = 0

\* if (flow->fd == -1)
SocketFailed(fd) == fd = -1

\* Lines 186-197: flow->fd takes name2socket's result; -1 rolls back.
AFS_Socket(p) ==
    /\ pc[p] = "afs_socket"
    /\ LET f == flow[p]
           fl == [flows[f] EXCEPT !.fd = n2s[p].result]
       IN IF SocketFailed(fl.fd)
          THEN FailAndRollback(p, SockMsgPrefix \o fl.error, fl, openFds, heap)
          ELSE /\ flows' = [flows EXCEPT ![f] = fl]
               /\ pc' = [pc EXCEPT ![p] = "afs_tcpopts"]
               /\ UNCHANGED <<num_flows, openFds, heap, request, rv>>
    /\ UNCHANGED <<next_flow_id, calls, flow, n2s, hist>>

\* The error text taken after flow->error was cleared.
TransferErrorCleared(fl) == NoError

\* request->r.error = flow->error
TransferError(fl) == fl.error

\* Lines 199-205: set_flow_tcp_options(flow); when it fails, the error text
\* it left on the flow moves to the request and the call rolls back.
AFS_TcpOptions(p) ==
    /\ pc[p] = "afs_tcpopts"
    /\ \E ok \in BOOLEAN :
         LET f == flow[p]
             r == set_flow_tcp_options(flows[f], ok)
         IN IF r.rc = -1
            THEN FailAndRollback(p, TransferError(r.flow),
                                 [r.flow EXCEPT !.error = NoError], openFds, heap)
            ELSE /\ pc' = [pc EXCEPT ![p] = "afs_ccalg"]
                 /\ flows' = [flows EXCEPT ![f] = r.flow]
                 /\ UNCHANGED <<num_flows, openFds, heap, request, rv>>
    /\ hist' = Log(p, <<"set_flow_tcp_options", flows[flow[p]].fd>>)
    /\ UNCHANGED <<next_flow_id, calls, flow, n2s>>

\* Lines 207-217: getsockopt(TCP_CONGESTION) writes the algorithm's name to
\* the request, or fails and rolls back.
AFS_CcAlg(p) ==
    /\ pc[p] = "afs_ccalg"
    /\ LET f == flow[p] IN
       \/ /\ request' = [request EXCEPT ![p].cc_alg = "cubic"]
          /\ pc' = [pc EXCEPT ![p] = "afs_pcap"]
          /\ UNCHANGED <<num_flows, flows, openFds, heap, rv>>
       \/ FailAndRollback(p, CcMsg, flows[f], openFds, heap)
    /\ hist' = Log(p, <<"TCP_CONGESTION", flows[flow[p]].fd>>)
    /\ UNCHANGED <<next_flow_id, calls, flow, n2s>>

\* A capture start whose failure fails the call.
AFS_PcapGating(p) ==
    /\ pc[p] = "afs_pcap"
    /\ hist' = Log(p, <<"fg_pcap_go", flows[flow[p]].fd>>)
    /\ \/ /\ pc' = [pc EXCEPT ![p] = "afs_connect"]
          /\ UNCHANGED <<num_flows, flows, openFds, heap, request, rv>>
       \/ FailAndRollback(p, OptMsg, flows[flow[p]], openFds, heap)
    /\ UNCHANGED <<next_flow_id, calls, flow, n2s>>

\* Lines 219-221: fg_pcap_go(flow); nothing is returned.
AFS_Pcap(p) ==
    /\ pc[p] = "afs_pcap"
    /\ hist' = Log(p, <<"fg_pcap_go", flows[flow[p]].fd>>)
    /\ pc' = [pc EXCEPT ![p] = "afs_connect"]
    /\ UNCHANGED <<num_flows, flows, next_flow_id, openFds, heap, calls,
                   request, flow, rv, n2s>>

\* if (!flow->source_settings.late_connect)
EagerConnect(ss) == ss.late_connect = 0

\* Lines 222-231: without late_connect the socket is connected now; the
\* value connect() returns is not looked at.  Then the id goes to the
\* request and the call returns.
AFS_Connect(p) ==
    /\ pc[p] = "afs_connect"
    /\ LET f == flow[p] IN
       IF EagerConnect(flows[f].source_settings)
       THEN \E ok \in BOOLEAN :
            /\ flows' = [flows EXCEPT ![f].connect_called = 1,
                                      ![f].pmtu = get_pmtu(ok)]
            /\ hist' = [hist EXCEPT
                          ![p].eager = IF ok THEN "ok" ELSE "failed",
                          ![p].events = Append(@, <<"connect", flows[f].fd>>)]
       ELSE UNCHANGED <<flows, hist>>
    /\ rv' = [rv EXCEPT ![p] = 0]
    /\ request' = [request EXCEPT ![p].flow_id = flows[flow[p]].id]
    /\ pc' = [pc EXCEPT ![p] = "afs_ret"]
    /\ UNCHANGED <<num_flows, next_flow_id, openFds, heap, calls, flow, n2s>>

\* The caller takes the result; the thread is free for the next call.
Return(p) ==
    /\ pc[p] = "afs_ret"
    /\ pc' = [pc EXCEPT ![p] = "idle"]
    /\ request' = [request EXCEPT ![p] = NoRequest]
    /\ n2s' = [n2s EXCEPT ![p] = NoN2s]
    /\ hist' = [hist EXCEPT ![p] = NoHist]
    /\ UNCHANGED <<num_flows, flows, next_flow_id, openFds, heap, calls, flow,
                   rv>>

\* The steps of a call after its capacity test.
StepAfterCheck(p) ==
    \/ AFS_Reserve(p)
    \/ AFS_Alloc(p)
    \/ N2S_Getaddrinfo(p)
    \/ N2S_Socket(p)
    \/ N2S_Finish(p)
    \/ AFS_Socket(p)
    \/ AFS_TcpOptions(p)
    \/ AFS_CcAlg(p)
    \/ AFS_Pcap(p)
    \/ AFS_Connect(p)
    \/ Return(p)

Step(p) == AFS_Check(p) \/ StepAfterCheck(p)

\* The daemon serves one request at a time: a single caller thread.
Next == Call(1, Settings, SourceSettings) \/ Step(1)
Spec == Init /\ [][Next]_vars

\* The caller thread keeps running: a call that can take its next step
\* takes it.  Nothing obliges the caller to start another call.
SpecLive == Spec /\ WF_vars(Step(1))

(* -------------------- name2socket called directly -------------------- *)
\* name2socket(flow, host, port, &flow->addr, &flow->addr_len, do_connect,
\* ...) is called on its own, with either value of do_connect.  The flow it
\* is given is outside the table, freshly initialised with the request's
\* settings.
CallN2S(p) ==
    /\ pc[p] = "idle"
    /\ calls < MaxCalls
    /\ \E s \in Settings, ss \in SourceSettings, dc \in BOOLEAN :
         /\ request' = [request EXCEPT ![p] = NewRequest(s, ss)]
         /\ flows' = [flows EXCEPT ![ScratchSlot] =
                        [init_flow(next_flow_id) EXCEPT
                           !.settings = s, !.source_settings = ss]]
         /\ n2s' = [n2s EXCEPT ![p] =
                      [NoN2s EXCEPT !.caller = "direct", !.do_connect = dc]]
    /\ flow' = [flow EXCEPT ![p] = ScratchSlot]
    /\ next_flow_id' = next_flow_id + 1
    /\ calls' = calls + 1
    /\ hist' = [hist EXCEPT ![p] =
                  [NoHist EXCEPT !.pre = [num_flows |-> num_flows,
                                          openFds |-> openFds,
                                          heapPtrs |-> DOMAIN heap]]]
    /\ pc' = [pc EXCEPT ![p] = "n2s_getaddrinfo"]
    /\ UNCHANGED <<num_flows, openFds, heap, rv>>

\* The direct caller takes the result, then closes the socket and frees the
\* address it was given.
ReturnN2S(p) ==
    /\ pc[p] = "n2s_done"
    /\ rv' = [rv EXCEPT ![p] = n2s[p].result]
    /\ openFds' = openFds \ {n2s[p].result}
    /\ heap' = Free(heap, flows[flow[p]].addr)
    /\ flows' = [flows EXCEPT ![flow[p]] = EmptyFlow]
    /\ pc' = [pc EXCEPT ![p] = "idle"]
    /\ request' = [request EXCEPT ![p] = NoRequest]
    /\ n2s' = [n2s EXCEPT ![p] = NoN2s]
    /\ hist' = [hist EXCEPT ![p] = NoHist]
    /\ UNCHANGED <<num_flows, next_flow_id, calls, flow>>

NextN2S ==
    \/ CallN2S(1)
    \/ N2S_Getaddrinfo(1)
    \/ N2S_Socket(1)
    \/ N2S_Connect(1)
    \/ N2S_Finish(1)
    \/ ReturnN2S(1)
SpecN2S == Init /\ [][NextN2S]_vars

\* The requests with eager connect and byte counting.
ConcSettings == {s \in Settings : s.byte_counting = 1}
ConcSourceSettings == {ss \in SourceSettings : ss.late_connect = 0}

\* One caller thread that makes calls of both kinds, add_flow_source (with
\* eager-connect requests) and name2socket directly, one after the other.
NextAll ==
    \/ Call(1, ConcSettings, ConcSourceSettings)
    \/ CallN2S(1)
    \/ AFS_Check(1)
    \/ AFS_Reserve(1)
    \/ AFS_Alloc(1)
    \/ N2S_Getaddrinfo(1)
    \/ N2S_Socket(1)
    \/ N2S_Connect(1)
    \/ N2S_Finish(1)
    \/ AFS_Socket(1)
    \/ AFS_TcpOptions(1)
    \/ AFS_CcAlg(1)
    \/ AFS_Pcap(1)
    \/ AFS_Connect(1)
    \/ Return(1)
    \/ ReturnN2S(1)
SpecAll == Init /\ [][NextAll]_vars

\* Several threads call add_flow_source with no lock around it.  The
\* increments and decrements of num_flows are taken as indivisible.  The
\* threads start when one late-connect flow has been admitted already
\* (a state Spec reaches, see FirstFlowAdmitted).
FirstFlow ==
    [init_flow(0) EXCEPT
       !.fd = 3, !.write_block = 1, !.read_block = 2, !.addr = 4,
       !.addr_len = ai_addrlen(1),
       !.settings = [maximum_block_size |-> MaxBlock, byte_counting |-> 1,
                     requested_read_buffer_size |-> ReqSize,
                     requested_send_buffer_size |-> 0],
       !.source_settings = [destination_host |-> "host",
                            destination_port |-> 5999, late_connect |-> 1]]
FirstFlowAdmitted ==
    /\ num_flows = 1
    /\ flows = [i \in Slots |-> IF i = 0 THEN FirstFlow ELSE EmptyFlow]
    /\ next_flow_id = 1
    /\ openFds = {3}
    /\ heap = (1 :> FillPattern(Zeroes(MaxBlock), 1)) @@ (2 :> Zeroes(MaxBlock))
              @@ (4 :> ai_addr(1))
    /\ calls = 1
    /\ pc = [p \in Procs |-> "idle"]
    /\ request = [p \in Procs |-> NoRequest]
    /\ flow = [p \in Procs |-> 0]
    /\ rv = [p \in Procs |-> 0]
    /\ n2s = [p \in Procs |-> NoN2s]
    /\ hist = [p \in Procs |-> NoHist]
InitConc == FirstFlowAdmitted
\* Every concurrent request is an eager-connect, byte-counting one.
NextConc ==
    \E p \in Procs : Call(p, ConcSettings, ConcSourceSettings) \/ Step(p)
SpecConc == InitConc /\ [][NextConc]_vars

\* Several threads call add_flow_source and only the reservation is
\* serialized: a lock is held from the capacity test of line 157 to the
\* increment of line 163, so no thread tests the count while another stands
\* between its test and its increment.  Nothing else is locked.  The
\* threads start when a first call has failed at its allocation and rolled
\* back, leaving the table empty (a state Spec reaches, see
\* FirstCallRolledBack).
FirstCallRolledBack ==
    /\ num_flows = 0
    /\ flows = [i \in Slots |->
                  IF i = 0
                  THEN [init_flow(0) EXCEPT
                          !.settings = FirstFlow.settings,
                          !.source_settings = FirstFlow.source_settings]
                  ELSE EmptyFlow]
    /\ next_flow_id = 1
    /\ openFds = {}
    /\ heap = <<>>
    /\ calls = 1
    /\ pc = [p \in Procs |-> "idle"]
    /\ request = [p \in Procs |-> NoRequest]
    /\ flow = [p \in Procs |-> 0]
    /\ rv = [p \in Procs |-> IF p = 1 THEN -1 ELSE 0]
    /\ n2s = [p \in Procs |-> NoN2s]
    /\ hist = [p \in Procs |-> NoHist]
InitSerial == FirstCallRolledBack
ReservationLockFree(p) == \A q \in Procs \ {p} : pc[q] # "afs_reserve"
NextSerial ==
    \E p \in Procs :
       \/ Call(p, ConcSettings, ConcSourceSettings)
       \/ (ReservationLockFree(p) /\ AFS_Check(p))
       \/ StepAfterCheck(p)
SpecSerial == InitSerial /\ [][NextSerial]_vars

(* ------------------------------ properties ----------------------------- *)
\* add_flow_source has returned to thread p, which has not yet taken the result.
Returned(p) == pc[p] = "afs_ret"
Succeeded(p) == Returned(p) /\ rv[p] = 0
Failed(p) == Returned(p) /\ rv[p] = -1
\* The flow thread p's call worked on.
FlowOf(p) == flows[flow[p]]

\* C1: the flow count stays within 0..MAX_FLOWS; a call never stands at the
\* reservation with a full table, and a call started with num_flows =
\* MAX_FLOWS returns -1 with the capacity error.
C1_CapacityInvariant ==
    /\ num_flows \in 0..MAX_FLOWS
    /\ \A p \in Procs :
         /\ pc[p] = "afs_reserve" => num_flows < MAX_FLOWS
         /\ (Returned(p) /\ hist[p].pre.num_flows = MAX_FLOWS) =>
               /\ rv[p] = -1
               /\ request[p].error = CapacityMsg
C1_Witness ==
    \E p \in Procs :
       /\ Returned(p)
       /\ hist[p].pre.num_flows = MAX_FLOWS
       /\ request[p].error = CapacityMsg

\* Thread p is inside a call that found the table full when it started.
InFullTableCall(p) ==
    pc[p] # "idle" /\ hist[p].pre.num_flows >= MAX_FLOWS

\* C2: no step of a call made with the table full changes num_flows, a flow
\* slot, the open sockets or the heap (no socket or block is created), and
\* the call returns -1 with the capacity error on the request.
C2_FullTableUntouched ==
    [][\A p \in Procs :
          InFullTableCall(p) =>
             /\ UNCHANGED <<num_flows, flows, openFds, heap>>
             /\ pc'[p] \in {"afs_check", "afs_ret", "idle"}
             /\ pc'[p] = "afs_ret" =>
                   /\ rv'[p] = -1
                   /\ request'[p].error = CapacityMsg
                   /\ hist'[p].made = {}
                   /\ hist'[p].events = <<>>]_vars
C2_Witness ==
    \E p \in Procs :
       /\ Failed(p)
       /\ hist[p].pre.num_flows >= MAX_FLOWS
       /\ hist[p].events = <<>>
       /\ Cardinality(openFds) = MAX_FLOWS

\* C3: when a call fails, num_flows is what it was before the call, every
\* socket the call opened is closed, every block it allocated is freed, and
\* the slot it used owns nothing.
C3_RollbackComplete ==
    \A p \in Procs :
       Failed(p) =>
          /\ num_flows = hist[p].pre.num_flows
          /\ openFds = hist[p].pre.openFds
          /\ hist[p].made \cap openFds = {}
          /\ DOMAIN heap = hist[p].pre.heapPtrs
          /\ hist[p].pre.num_flows < MAX_FLOWS =>
                /\ FlowOf(p).fd = -1
                /\ uninit_ptrs(FlowOf(p)) = {NULL}
\* The latest failure point: buffers, address and socket all existed.
C3_Witness ==
    \E p \in Procs :
       /\ Failed(p)
       /\ request[p].error = CcMsg
       /\ hist[p].made # {}
       /\ num_flows = hist[p].pre.num_flows

\* C4: with late_connect off, a call returns 0 only if its eager connect()
\* succeeded, and then the flow has connect_called set and a path MTU; a
\* failed eager connect makes the call fail.
C4_EagerConnectGatesSuccess ==
    \A p \in Procs :
       (Returned(p) /\ request[p].source_settings.late_connect = 0
          /\ hist[p].eager # "none") =>
          /\ hist[p].eager = "ok" =>
                /\ rv[p] = 0
                /\ FlowOf(p).connect_called = 1
                /\ FlowOf(p).pmtu > 0
          /\ hist[p].eager = "failed" => rv[p] = -1

\* C5: name2socket is never asked to connect by add_flow_source, and a
\* late_connect call that returns 0 has made no connect() at all: the flow
\* has connect_called = 0 and holds an open socket the call created and the
\* copy of a candidate's address.
C5_LateConnectIssuesNoConnect ==
    \A p \in Procs :
       /\ n2s[p].caller = "afs" =>
             /\ ~n2s[p].do_connect
             /\ pc[p] # "n2s_connect"
       /\ (Succeeded(p) /\ request[p].source_settings.late_connect = 1) =>
             /\ hist[p].connects = <<>>
             /\ hist[p].eager = "none"
             /\ \A i \in 1..Len(hist[p].events) :
                   hist[p].events[i][1] # "connect"
             /\ FlowOf(p).connect_called = 0
             /\ FlowOf(p).fd \in openFds \cap hist[p].made
             /\ FlowOf(p).addr \in DOMAIN heap
             /\ \E k \in 1..MaxCand :
                   /\ heap[FlowOf(p).addr] = ai_addr(k)
                   /\ FlowOf(p).addr_len = ai_addrlen(k)
C5_Witness ==
    \E p \in Procs :
       /\ Succeeded(p)
       /\ request[p].source_settings.late_connect = 1
       /\ FlowOf(p).fd \in openFds
       /\ FlowOf(p).connect_called = 0

\* Thread p holds a reserved slot: it is between line 163 and its return.
HoldsSlot(p) ==
    pc[p] \in {"afs_alloc", "n2s_getaddrinfo", "n2s_socket", "n2s_finish",
               "afs_socket", "afs_tcpopts", "afs_ccalg", "afs_pcap",
               "afs_connect"}

\* C6: under every interleaving of concurrent calls the flow count never
\* exceeds MAX_FLOWS and no two calls hold the same slot.
C6_ReservationAtomic ==
    /\ num_flows <= MAX_FLOWS
    /\ \A p, q \in Procs :
          (p # q /\ HoldsSlot(p) /\ HoldsSlot(q)) => flow[p] # flow[q]

\* C7: a call returns in one of two ways.  Either 0, with flow_id and both
\* effective buffer sizes written, no error on the request, and the flow
\* live in the table; or -1, with an error text on the request, flow_id not
\* written, and no flow added.
C7_TwoOutcomes ==
    \A p \in Procs :
       Returned(p) =>
          \/ /\ rv[p] = 0
             /\ request[p].flow_id # Unset
             /\ request[p].flow_id = FlowOf(p).id
             /\ request[p].real_read_buffer_size # Unset
             /\ request[p].real_send_buffer_size # Unset
             /\ request[p].error = NoError
             /\ num_flows = hist[p].pre.num_flows + 1
             /\ flow[p] = hist[p].pre.num_flows
             /\ flow[p] < num_flows
          \/ /\ rv[p] = -1
             /\ request[p].error # NoError
             /\ request[p].flow_id = Unset
             /\ num_flows = hist[p].pre.num_flows
\* Both outcomes occur; the failure named is the one whose text comes from
\* the flow.
C7_Witness ==
    \E p \in Procs :
       /\ Failed(p)
       /\ request[p].error = OptMsg
       /\ request[p].real_read_buffer_size # Unset

\* C8: after a successful call with byte counting, byte i of the write
\* block is i mod 256 for every i below maximum_block_size, and the read
\* block is all zero.
C8_BufferFidelity ==
    \A p \in Procs :
       (Succeeded(p) /\ request[p].settings.byte_counting # 0) =>
          LET size == request[p].settings.maximum_block_size
              wb == heap[FlowOf(p).write_block]
              rb == heap[FlowOf(p).read_block]
          IN /\ Len(wb) = size
             /\ Len(rb) = size
             /\ \A i \in 0..(size - 1) :
                   /\ wb[i + 1] = i % 256
                   /\ rb[i + 1] = 0
C8_Witness ==
    \E p \in Procs :
       /\ Succeeded(p)
       /\ request[p].settings.byte_counting # 0
       /\ request[p].settings.maximum_block_size > 256
       /\ heap[FlowOf(p).write_block][257] = 0
       /\ heap[FlowOf(p).write_block][256] = 255

\* name2socket has returned to its direct caller.
N2SDone(p) == pc[p] = "n2s_done"
SocketFailures(p) ==
    {i \in 1..Len(hist[p].events) : hist[p].events[i] = <<"socket", -1>>}
Refused(p) ==
    {i \in 1..Len(hist[p].connects) : hist[p].connects[i][2] = -1}

\* C9: when name2socket is asked to connect, the host resolves to N
\* candidates, a socket is made for each and every connect is refused, then
\* N connects were made, to candidates 1..N in that order, before the call
\* returns -1 with the connect error; the call does not return earlier.
C9_ResolverExhaustion ==
    \A p \in Procs :
       (n2s[p].caller = "direct" /\ n2s[p].do_connect /\ n2s[p].ncand > 0
          /\ SocketFailures(p) = {}
          /\ Refused(p) = 1..Len(hist[p].connects)) =>
          /\ Len(hist[p].connects) <= n2s[p].ncand
          /\ \A i \in 1..Len(hist[p].connects) : hist[p].connects[i][1] = i
          /\ N2SDone(p) =>
                /\ Len(hist[p].connects) = n2s[p].ncand
                /\ n2s[p].result = -1
                /\ FlowOf(p).error = ConnMsg
C9_Witness ==
    \E p \in Procs :
       /\ N2SDone(p)
       /\ n2s[p].do_connect
       /\ n2s[p].ncand = MaxCand
       /\ SocketFailures(p) = {}
       /\ hist[p].connects = [i \in 1..MaxCand |-> <<i, -1>>]
       /\ n2s[p].result = -1

\* No add_flow_source call is in progress.
Quiescent == \A p \in Procs : pc[p] \in {"idle", "afs_ret"}
\* A flow with an open socket, both blocks of its block size, and the copy
\* of its peer address with the address's length.
FullyBuilt(fl) ==
    /\ fl.state = GRIND_WAIT_CONNECT
    /\ fl.fd >= 0
    /\ fl.fd \in openFds
    /\ {fl.write_block, fl.read_block, fl.addr} \subseteq DOMAIN heap
    /\ Cardinality({fl.write_block, fl.read_block, fl.addr}) = 3
    /\ Len(heap[fl.write_block]) = fl.settings.maximum_block_size
    /\ Len(heap[fl.read_block]) = fl.settings.maximum_block_size
    /\ fl.addr_len > 0
    /\ \E k \in 1..MaxCand :
          heap[fl.addr] = ai_addr(k) /\ fl.addr_len = ai_addrlen(k)
    /\ fl.error = NoError

\* C10: whenever no call is in progress, every slot below num_flows holds a
\* fully built flow, and no two of them share a socket or a block.
C10_LiveFlowsFullyBuilt ==
    Quiescent =>
       /\ \A i \in 0..(num_flows - 1) : FullyBuilt(flows[i])
       /\ \A i, j \in 0..(num_flows - 1) :
             i # j =>
                /\ flows[i].fd # flows[j].fd
                /\ uninit_ptrs(flows[i]) \cap uninit_ptrs(flows[j]) = {}
\* A call has just failed while a flow admitted earlier is in the table.
C10_Witness ==
    /\ Quiescent
    /\ num_flows >= 1
    /\ \E p \in Procs : Failed(p) /\ hist[p].made # {}

\* Thread p's call has failed after it had reserved a slot.
FailedAfterReserve(p) == Failed(p) /\ request[p].error # CapacityMsg

\* C11: with the reservation serialized, a call keeps its slot to itself:
\* when a call that holds the lower of two reserved slots has failed and
\* rolled back, the other call's flow, under way or admitted, is still at
\* an index below num_flows and the failed call's slot is not.
C11_RollbackReleasesOwnSlot ==
    \A p, q \in Procs :
       (/\ p # q
        /\ FailedAfterReserve(p)
        /\ HoldsSlot(q) \/ Succeeded(q)
        /\ flow[p] < flow[q]) =>
          /\ flow[q] < num_flows
          /\ flow[p] >= num_flows

(* ------------------------------- C12 ---------------------------------- *)
\* The positions before i where ev was logged since fd was created last.
SinceCreated(E, i, fd) ==
    {j \in 1..(i - 1) :
        \A k \in (j + 1)..(i - 1) : E[k] # <<"socket", fd>>}
CalledBefore(E, i, ev) ==
    \E j \in SinceCreated(E, i, ev[2]) : E[j] = ev

\* C12: every connect a call issues on a socket comes after both buffer
\* sizes were negotiated on that socket; inside add_flow_source it also
\* comes after set_flow_tcp_options on that socket.
C12_SizedBeforeConnect ==
    \A p \in Procs :
       LET E == hist[p].events IN
       \A i \in DOMAIN E :
          E[i][1] = "connect" =>
             LET fd == E[i][2] IN
             /\ CalledBefore(E, i, <<"SO_SNDBUF", fd>>)
             /\ CalledBefore(E, i, <<"SO_RCVBUF", fd>>)
             /\ n2s[p].caller = "afs" =>
                   CalledBefore(E, i, <<"set_flow_tcp_options", fd>>)

\* name2socket connected its second candidate, on the descriptor number the
\* refused first one had.
C12_Witness ==
    \E p \in Procs :
       /\ n2s[p].caller = "direct"
       /\ Len(hist[p].connects) = 2
       /\ hist[p].connects[2][2] = 0
       /\ Len(hist[p].events) = 9
       /\ hist[p].events[4] = <<"connect", hist[p].events[9][2]>>
       /\ hist[p].events[9][1] = "connect"

\* add_flow_source issued its eager connect.
C12_EagerReached ==
    \E p \in Procs :
       /\ n2s[p].caller = "afs"
       /\ hist[p].eager # "none"
       /\ \E i \in DOMAIN hist[p].events : hist[p].events[i][1] = "connect"
(* ------------------------------- C13 ---------------------------------- *)
\* name2socket has returned, to add_flow_source or to its direct caller, and
\* the caller has not acted yet.
N2SReturned(p) ==
    \/ pc[p] = "n2s_done"
    \/ pc[p] = "afs_socket"

\* C13: when name2socket returns -1 every socket it created is closed, and
\* when it returns a descriptor that one is the only socket it created that
\* is still open, whether it was asked to connect or not.
C13_NoSocketLeak ==
    \A p \in Procs :
       N2SReturned(p) =>
          /\ n2s[p].result = -1 => openFds = hist[p].pre.openFds
          /\ n2s[p].result # -1 =>
                /\ n2s[p].result \in hist[p].made
                /\ n2s[p].result \notin hist[p].pre.openFds
                /\ openFds = hist[p].pre.openFds \cup {n2s[p].result}

\* A connecting call failed after one candidate's socket() failed and the
\* other's connect was refused.
C13_Witness ==
    \E p \in Procs :
       /\ pc[p] = "n2s_done"
       /\ n2s[p].do_connect
       /\ n2s[p].result = -1
       /\ hist[p].made # {}
       /\ SocketFailures(p) # {}
       /\ Refused(p) # {}

\* A connecting call succeeded on its second candidate after the first was
\* refused.
C13_SuccessReached ==
    \E p \in Procs :
       /\ pc[p] = "n2s_done"
       /\ n2s[p].result # -1
       /\ Refused(p) = {1}
       /\ Len(hist[p].connects) = 2
(* ------------------------------- C14 ---------------------------------- *)
\* Candidate k did not yield the call's socket: its socket() failed or, in
\* a connecting call, its connect was refused.
Unsuccessful(p, k) ==
    \/ hist[p].tried[k][2] = -1
    \/ n2s[p].do_connect /\ \E i \in Refused(p) : hist[p].connects[i][1] = k

\* C14: name2socket calls socket() for the candidates in the resolver's
\* order, one after the other; a candidate whose socket() fails gets no
\* connect and the next one is tried; the call stops at the first candidate
\* that succeeds, and the descriptor it returns and the address it copies
\* are that candidate's.  It fails only when no candidate is left.
C14_FirstSuccessfulCandidate ==
    \A p \in Procs :
       LET T == hist[p].tried IN
       /\ \A i \in DOMAIN T : T[i][1] = i
       /\ \A i \in DOMAIN hist[p].connects :
             T[hist[p].connects[i][1]][2] # -1
       /\ N2SReturned(p) /\ n2s[p].ncand > 0 =>
             IF n2s[p].result = -1
             THEN /\ Len(T) = n2s[p].ncand
                  /\ \A k \in DOMAIN T : Unsuccessful(p, k)
             ELSE /\ T # <<>>
                  /\ T[Len(T)][2] = n2s[p].result
                  /\ \A k \in 1..(Len(T) - 1) : Unsuccessful(p, k)
                  /\ ~Unsuccessful(p, Len(T))
                  /\ heap[FlowOf(p).addr][2] = Len(T)
                  /\ Len(heap[FlowOf(p).addr]) = 2
                  /\ heap[FlowOf(p).addr][1] = ai_addrlen(Len(T))
                  /\ FlowOf(p).addr_len = ai_addrlen(Len(T))

\* A connecting call returned the socket of its second candidate after the
\* first one's socket() failed.
C14_Witness ==
    \E p \in Procs :
       /\ N2SReturned(p)
       /\ n2s[p].do_connect
       /\ n2s[p].result # -1
       /\ Len(hist[p].tried) = 2
       /\ hist[p].tried[1][2] = -1
       /\ hist[p].connects = <<<<2, 0>>>>

\* A call that does not connect returned the socket of its second candidate.
C14_NoConnectReached ==
    \E p \in Procs :
       /\ N2SReturned(p)
       /\ ~n2s[p].do_connect
       /\ n2s[p].result # -1
       /\ Len(hist[p].tried) = 2
(* ------------------------------- C15 ---------------------------------- *)
\* The call of thread p is under way before and after the step.
InCall(p) == pc[p] # "idle" /\ pc'[p] # "idle"
\* The flow of thread p holds its copy of the request's settings.
HasCopy(p) == pc[p] \notin {"idle", "afs_check", "afs_reserve"}

\* C15: no step of a call changes the settings or the source settings
\* (host, port, late_connect) of its request; what a call writes to the
\* request are the response fields.  The host text of the flow changes
\* only in a name2socket call asked to connect, in the step whose connect
\* succeeded.
C15_RequestInputsUntouched ==
    [][\A p \in Procs :
          /\ InCall(p) =>
                /\ request'[p].settings = request[p].settings
                /\ request'[p].source_settings = request[p].source_settings
          /\ (InCall(p) /\ HasCopy(p)
                /\ flows'[flow[p]].source_settings.destination_host
                      # flows[flow[p]].source_settings.destination_host) =>
                /\ pc[p] = "n2s_connect"
                /\ n2s[p].do_connect
                /\ hist'[p].connects[Len(hist'[p].connects)][2] = 0]_vars

\* An admission with eager connect succeeded: response fields are written,
\* the request's inputs are the ones the flow copied.
C15_Witness ==
    \E p \in Procs :
       /\ Succeeded(p)
       /\ hist[p].eager # "none"
       /\ request[p].flow_id = FlowOf(p).id
       /\ request[p].real_read_buffer_size # Unset
       /\ request[p].cc_alg # ""
       /\ request[p].settings = FlowOf(p).settings
       /\ request[p].source_settings = FlowOf(p).source_settings

\* A connecting name2socket call rewrote the flow's host text; the
\* request's is as it was.
C15_RewriteReached ==
    \E p \in Procs :
       /\ pc[p] = "n2s_done"
       /\ n2s[p].result # -1
       /\ FlowOf(p).source_settings.destination_host = NumericHost(2)
       /\ request[p].source_settings.destination_host = "host"
(* ------------------------------- C16 ---------------------------------- *)
\* How many of the events from position i on, up to the next socket(), are
\* the call ev.
CallsAfter(E, i, ev) ==
    Cardinality({j \in (i + 1)..Len(E) :
                   /\ E[j] = ev
                   /\ \A k \in (i + 1)..j : E[k][1] # "socket"})
Created(p) == {k \in DOMAIN hist[p].tried : hist[p].tried[k][2] # -1}
Connected(p) == {hist[p].connects[i][1] : i \in DOMAIN hist[p].connects}

\* C16: on every socket name2socket creates, the send size and the receive
\* size are each negotiated exactly once, whatever the other one yields;
\* the negotiation never makes the call fail or pass over the candidate (a
\* created socket is connected to when a connect is asked for, and returned
\* when not); and the sizes a successful call reports are the ones read
\* back from the socket it returns.
C16_NegotiationPerSocket ==
    \A p \in Procs :
       LET E == hist[p].events
           G == hist[p].granted
       IN /\ \A i \in DOMAIN E :
                (E[i][1] = "socket" /\ E[i][2] # -1) =>
                   /\ CallsAfter(E, i, <<"SO_SNDBUF", E[i][2]>>) = 1
                   /\ CallsAfter(E, i, <<"SO_RCVBUF", E[i][2]>>) = 1
          /\ Len(G) = Cardinality(Created(p))
          /\ N2SReturned(p) =>
                /\ n2s[p].do_connect => Created(p) = Connected(p)
                /\ ~n2s[p].do_connect /\ Created(p) # {} => n2s[p].result # -1
                /\ n2s[p].result # -1 =>
                      /\ G[Len(G)][1] = n2s[p].result
                      /\ request[p].real_send_buffer_size = G[Len(G)][2]
                      /\ request[p].real_read_buffer_size = G[Len(G)][3]

\* A connecting call returned its second socket, whose receive size was
\* read back differently from the refused first one's.
C16_Witness ==
    \E p \in Procs :
       /\ N2SReturned(p)
       /\ n2s[p].result # -1
       /\ Len(hist[p].granted) = 2
       /\ hist[p].granted[1][3] # hist[p].granted[2][3]
       /\ request[p].real_read_buffer_size = hist[p].granted[2][3]
(* ------------------------------- C17 ---------------------------------- *)
\* The positions of the capture starts among the calls of thread p.
PcapStarts(p) ==
    {i \in DOMAIN hist[p].events : hist[p].events[i][1] = "fg_pcap_go"}

\* C17: a call starts the packet capture at most once; when it does, the
\* slot is reserved, both blocks are allocated, the socket is made and
\* sized, the TCP options are applied and the congestion control is read
\* back; no connect of the call comes before it; and a call that started
\* the capture returns 0, one that fails never started it.
C17_CaptureOnceAfterSetup ==
    \A p \in Procs :
       LET E == hist[p].events IN
       /\ Cardinality(PcapStarts(p)) <= 1
       /\ \A i \in PcapStarts(p) :
             LET fd == E[i][2] IN
             /\ fd # -1
             /\ fd = FlowOf(p).fd
             /\ fd \in openFds
             /\ flow[p] < num_flows
             /\ {FlowOf(p).write_block, FlowOf(p).read_block} \subseteq DOMAIN heap
             /\ CalledBefore(E, i, <<"socket", fd>>)
             /\ CalledBefore(E, i, <<"SO_SNDBUF", fd>>)
             /\ CalledBefore(E, i, <<"SO_RCVBUF", fd>>)
             /\ CalledBefore(E, i, <<"set_flow_tcp_options", fd>>)
             /\ CalledBefore(E, i, <<"TCP_CONGESTION", fd>>)
             /\ request[p].cc_alg # ""
             /\ \A j \in DOMAIN E : E[j][1] = "connect" => j > i
             /\ Returned(p) => rv[p] = 0
       /\ Failed(p) => PcapStarts(p) = {}

\* An eager admission returned: its capture start is followed by its
\* connect.
C17_Witness ==
    \E p \in Procs :
       /\ Succeeded(p)
       /\ \E i \in PcapStarts(p) :
             /\ i + 1 \in DOMAIN hist[p].events
             /\ hist[p].events[i + 1] = <<"connect", FlowOf(p).fd>>
(* ------------------------------- C18 ---------------------------------- *)
\* The lifecycle states as the flow's fields and the call's connect show
\* them: connect-pending is a socket made and no connect issued, connected
\* is an eager connect that succeeded, destroyed is a flow that holds no
\* socket, block or address.  (flow->state itself is GRIND_WAIT_CONNECT
\* from init_flow on.)
ConnectPending(p) ==
    /\ FlowOf(p).state = GRIND_WAIT_CONNECT
    /\ FlowOf(p).fd \in openFds
    /\ FlowOf(p).connect_called = 0
    /\ hist[p].eager = "none"
ConnectedState(p) ==
    /\ FlowOf(p).fd \in openFds
    /\ FlowOf(p).connect_called = 1
    /\ hist[p].eager = "ok"
Destroyed(p) ==
    /\ FlowOf(p).fd = -1
    /\ FlowOf(p).write_block = NULL
    /\ FlowOf(p).read_block = NULL
    /\ FlowOf(p).addr = NULL
    /\ flow[p] >= num_flows

\* C18: a call that succeeds with late_connect leaves its flow
\* connect-pending, one that succeeds without it leaves the flow connected,
\* and one that fails after the reservation leaves it destroyed, holding
\* no socket, blocks or address.
C18_LifecycleOutcomes ==
    \A p \in Procs :
       /\ (Succeeded(p) /\ ~EagerConnect(FlowOf(p).source_settings)) =>
             ConnectPending(p)
       /\ (Succeeded(p) /\ EagerConnect(FlowOf(p).source_settings)) =>
             ConnectedState(p)
       /\ FailedAfterReserve(p) => Destroyed(p)
(* ------------------------------- C19 ---------------------------------- *)
\* C19: every call of add_flow_source that has started returns, with 0 or
\* with -1; on the way the candidate loop calls socket() for each candidate
\* at most once, in the list's order, a failed socket() included.
C19_EveryCallReturns ==
    /\ [](\A p \in Procs :
            /\ Len(hist[p].tried) <= n2s[p].ncand
            /\ \A i \in DOMAIN hist[p].tried : hist[p].tried[i][1] = i)
    /\ \A p \in Procs : (pc[p] = "afs_check") ~> Returned(p)
(* ------------------------------- C20 ---------------------------------- *)
\* Thread p's name2socket has left its loop with a socket and takes the
\* step of lines 135-147 without getting a block for the address.
AddressCopyFails(p) ==
    /\ pc[p] = "n2s_finish"
    /\ n2s[p].res # NULL
    /\ pc'[p] # "n2s_finish"
    /\ flows'[flow[p]].addr = NULL

\* C20: when the malloc of the address copy fails, name2socket closes the
\* socket it made and returns -1 to its caller, which then rolls back; the
\* other threads, the flow count and the other flows are as before.
C20_AddressCopyFailureContained ==
    [][\A p \in Procs :
          AddressCopyFails(p) =>
             /\ pc'[p] = ReturnTo(n2s[p].caller)
             /\ n2s'[p].result = -1
             /\ n2s[p].fd \notin openFds'
             /\ \A q \in Procs \ {p} : pc'[q] = pc[q]
             /\ num_flows' = num_flows
             /\ \A i \in Slots \ {flow[p]} : flows'[i] = flows[i]]_vars
====
